---- MODULE Spec2Model ----
(***************************************************************************)
(* The bulk SQL-dump loader of the dashboard repository:                   *)
(*   src/data/mysql_data/upload_to_railway.py  (Railway loader)            *)
(*   src/data/mysql_data/upload_to_aiven.py    (Aiven loader)              *)
(*                                                                         *)
(* Text is a sequence of one-character strings.  The specifications:       *)
(*   SpecTok    the three statement tokenizers, one character per step     *)
(*   SpecEmit   the same loops over texts with comments and directives     *)
(*   SpecComment     the same loops over texts with SQL comments           *)
(*   SpecRetok  split_sql_file over dumps whose chunks are read back       *)
(*   SpecBatch  a run over a chunk with more statements than one batch     *)
(*   SpecSplit  split_sql_file of the Railway loader (tokenizer + planner) *)
(*   SpecAivenSplit  split_sql_file of the Aiven loader (line based)       *)
(*   SpecUpload upload_sql_file_chunked / upload_chunk of both loaders     *)
(*   SpecPreflight   clear_railway_database / clean_aiven_database         *)
(*   SpecMain   main of both loaders around the upload                     *)
(***************************************************************************)
EXTENDS Integers, Sequences, FiniteSets, TLC

VARIABLES
    \* ---- tokenizer loops (SpecTok)
    content,        \* the text being scanned (sql_content / content)
    pos,            \* number of characters consumed by the for-loops
    split_tok,      \* loop state of split_sql_file's tokenizer (Railway)
    up_tok,         \* loop state of upload_chunk's tokenizer (Railway)
    aiven_tok,      \* loop state of upload_chunk's tokenizer (Aiven)
    \* ---- split_sql_file (SpecSplit)
    chunk_size_mb,  \* parameter of split_sql_file
    statements,     \* local: the tokenized statements
    chunk_stmts,    \* the statement list joined into each chunk file, in order
    chunk_files,    \* the text written to each chunk file, in order
    spc,            \* "init" before the call, "done" after it
    \* ---- upload_sql_file_chunked (SpecUpload)
    loader,         \* "railway" or "aiven": which script runs
    file_exists,    \* os.path.exists(sql_file_path)
    rpc,            \* where upload_sql_file_chunked stands
    temp_dir,       \* "None", "exists" or "removed"
    main_i,         \* index of the main loop over chunk_files (1-based)
    failed_chunks,  \* chunk numbers put on the retry list
    retry_i,        \* index of the retry loop over failed_chunks
    total_success,
    total_errors,
    result,         \* "none", "True", "False", or "exception" if the call raised
    \* ---- upload_chunk (SpecUpload)
    cpc,            \* where upload_chunk stands
    chunk_num,      \* parameter of upload_chunk
    conn_open,      \* the attempt's connection is open
    chunk_statements, \* local `statements` of upload_chunk
    si,             \* statements of the chunk already attempted
    success_count,
    error_count,
    ret,            \* the tuple upload_chunk returned
    \* ---- the database side
    calls,          \* one record per upload_chunk call, in call order
    \* ---- the file system
    tmp_on_disk,    \* the directory made by tempfile.mkdtemp is on disk
    \* ---- main and the pre-flight cleanup (SpecMain, SpecPreflight)
    mpc,            \* where main stands
    exit_status,    \* "running", or the exit status of the process
    databases,      \* the databases on the target server
    tables,         \* the databases on the target server that hold tables
    cleanup_ret,    \* what the pre-flight cleanup returned
    drops_failed,   \* the databases whose DROP raised an Error in the cleanup
    cleanup_fault,  \* "none", or the step of the last cleanup that raised
    cleanup_runs,   \* the number of cleanup calls so far
    drops_issued    \* the databases the last cleanup sent a DROP for, in order

tokVars   == <<content, pos, split_tok, up_tok, aiven_tok>>
splitVars == <<chunk_size_mb, statements, chunk_stmts, chunk_files, spc>>
runVars   == <<loader, file_exists, rpc, temp_dir, main_i, failed_chunks, retry_i,
               total_success, total_errors, result>>
chunkVars == <<cpc, chunk_num, conn_open, chunk_statements, si,
               success_count, error_count, ret>>
uploadVars == <<runVars, chunkVars, calls, tmp_on_disk>>
mainVars  == <<mpc, exit_status, databases, tables, cleanup_ret, drops_failed,
               cleanup_fault, cleanup_runs, drops_issued>>
vars      == <<tokVars, splitVars, uploadVars, mainVars>>

----------------------------------------------------------------------------
(* Bounds of the model *)

MaxLen == 5         \* longest text scanned in SpecTok
MaxStmts == 4       \* most dump pieces concatenated in SpecSplit
MaxBudget == 12     \* largest chunk_size_mb tried in SpecSplit

\* chunk_size_bytes = chunk_size_mb * 1024 * 1024: the model counts sizes in
\* units of one megabyte, so one UTF-8 byte of model text stands for 1 MB.
MB == 1

----------------------------------------------------------------------------
(* Text helpers: Python str operations on sequences of characters *)

\* str.strip() / str.isspace(): the whitespace characters of the model
Whitespace == {" ", "\n"}

RECURSIVE LStrip(_)
LStrip(s) ==
    IF s # <<>> /\ Head(s) \in Whitespace THEN LStrip(Tail(s)) ELSE s

RECURSIVE RStrip(_)
RStrip(s) ==
    IF s # <<>> /\ s[Len(s)] \in Whitespace
    THEN RStrip(SubSeq(s, 1, Len(s) - 1))
    ELSE s

\* str.strip()
Strip(s) == RStrip(LStrip(s))

\* str.startswith(prefix)
StartsWith(s, prefix) ==
    /\ Len(s) >= Len(prefix)
    /\ SubSeq(s, 1, Len(prefix)) = prefix

\* str.upper(), character by character
LowerCase == <<"a", "b", "c", "d", "e", "f", "g", "h", "i", "j", "k", "l", "m",
               "n", "o", "p", "q", "r", "s", "t", "u", "v", "w", "x", "y", "z">>
UpperCase == <<"A", "B", "C", "D", "E", "F", "G", "H", "I", "J", "K", "L", "M",
               "N", "O", "P", "Q", "R", "S", "T", "U", "V", "W", "X", "Y", "Z">>

UpperChar(c) ==
    IF \E k \in 1..26 : LowerCase[k] = c
    THEN UpperCase[CHOOSE k \in 1..26 : LowerCase[k] = c]
    ELSE IF c = "é" THEN "É" ELSE c

Upper(s) == [k \in 1..Len(s) |-> UpperChar(s[k])]

\* len(c.encode('utf-8')) of one character
Utf8CharLen(c) == IF c \in {"é", "É"} THEN 2 ELSE 1

\* len(s.encode('utf-8'))
RECURSIVE Utf8LenRange(_, _, _)
Utf8LenRange(s, lo, hi) ==
    IF lo > hi THEN 0
    ELSE IF lo = hi THEN Utf8CharLen(s[lo])
    ELSE Utf8LenRange(s, lo, (lo + hi) \div 2)
             + Utf8LenRange(s, (lo + hi) \div 2 + 1, hi)

Utf8Len(s) == Utf8LenRange(s, 1, Len(s))

\* '\n'.join(lines) + '\n'
RECURSIVE JoinLines(_)
JoinLines(lines) ==
    IF lines = <<>> THEN <<"\n">>
    ELSE IF Len(lines) = 1 THEN Head(lines) \o <<"\n">>
    ELSE Head(lines) \o <<"\n">> \o JoinLines(Tail(lines))

\* concatenation of a sequence of sequences
RECURSIVE Flatten(_)
Flatten(ss) == IF ss = <<>> THEN <<>> ELSE Head(ss) \o Flatten(Tail(ss))

\* all sequences over S of length at most n
SeqsUpTo(S, n) == UNION {[1..k -> S] : k \in 0..n}

----------------------------------------------------------------------------
(* The statement tokenizers *)

KwCREATE == <<"C", "R", "E", "A", "T", "E">>
KwUSE == <<"U", "S", "E">>
KwDELIMITER == <<"D", "E", "L", "I", "M", "I", "T", "E", "R">>
DashDash == <<"-", "-">>
SlashStar == <<"/", "*">>

\* state of a tokenizer loop before the first character
SplitTokInit ==
    [current_statement |-> <<>>, in_string |-> FALSE, escape_next |-> FALSE,
     statements |-> <<>>]

UpTokInit ==
    [current_statement |-> <<>>, in_string |-> FALSE, escape_next |-> FALSE,
     string_char |-> "None", statements |-> <<>>]

AivenTokInit ==
    [current_statement |-> <<>>, in_string |-> FALSE, escape_next |-> FALSE,
     statements |-> <<>>]

\* split_sql_file (Railway): which characters toggle in_string
SplitQuoteChars == {"\"", "'"}

\* split_sql_file (Railway): the filter on a terminated statement
SplitKeeps(statement) ==
    statement # <<>> /\ ~StartsWith(statement, DashDash)

\* split_sql_file (Railway): one iteration of `for char in content`
SplitTokStep(t, char) ==
    IF t.escape_next
    THEN [t EXCEPT !.current_statement = Append(@, char), !.escape_next = FALSE]
    ELSE IF char = "\\"
    THEN [t EXCEPT !.escape_next = TRUE, !.current_statement = Append(@, char)]
    ELSE
        LET ins == IF char \in SplitQuoteChars THEN ~t.in_string ELSE t.in_string
            statement == Strip(t.current_statement)
        IN  IF char = ";" /\ ~ins
            THEN [t EXCEPT !.in_string = ins,
                           !.statements = IF SplitKeeps(statement)
                                          THEN Append(@, Append(statement, ";"))
                                          ELSE @,
                           !.current_statement = <<>>]
            ELSE [t EXCEPT !.in_string = ins,
                           !.current_statement = Append(@, char)]

\* upload_chunk (Railway): the filter on a terminated statement
UpKeeps(statement) ==
    /\ statement # <<>>
    /\ ~StartsWith(statement, DashDash)
    /\ ~StartsWith(statement, SlashStar)
    /\ ~StartsWith(Upper(statement), KwDELIMITER)

\* upload_chunk (Railway): one iteration of `for char in sql_content`
UpTokStep(t, char) ==
    IF t.escape_next
    THEN [t EXCEPT !.current_statement = Append(@, char), !.escape_next = FALSE]
    ELSE IF char = "\\"
    THEN [t EXCEPT !.escape_next = TRUE, !.current_statement = Append(@, char)]
    ELSE
        LET q == IF char \in {"\"", "'"}
                 THEN IF ~t.in_string
                      THEN [in_string |-> TRUE, string_char |-> char]
                      ELSE IF char = t.string_char
                      THEN [in_string |-> FALSE, string_char |-> "None"]
                      ELSE [in_string |-> t.in_string, string_char |-> t.string_char]
                 ELSE [in_string |-> t.in_string, string_char |-> t.string_char]
            statement == Strip(t.current_statement)
        IN  IF char = ";" /\ ~q.in_string
            THEN [t EXCEPT !.in_string = q.in_string,
                           !.string_char = q.string_char,
                           !.statements = IF UpKeeps(statement)
                                          THEN Append(@, statement)
                                          ELSE @,
                           !.current_statement = <<>>]
            ELSE [t EXCEPT !.in_string = q.in_string,
                           !.string_char = q.string_char,
                           !.current_statement = Append(@, char)]

\* upload_chunk (Aiven): which characters toggle in_string
AivenQuoteChars == {"'"}

\* upload_chunk (Aiven): the filter on a terminated statement
AivenKeeps(statement) ==
    /\ statement # <<>>
    /\ ~StartsWith(statement, DashDash)
    /\ ~StartsWith(statement, SlashStar)

\* variant: the escape flag is not cleared by the escaped character
AivenTokStepEscapeSticks(t, char) ==
    IF t.escape_next
    THEN [t EXCEPT !.current_statement = Append(@, char)]
    ELSE IF char = "\\"
    THEN [t EXCEPT !.escape_next = TRUE, !.current_statement = Append(@, char)]
    ELSE
        LET ins == IF char \in AivenQuoteChars THEN ~t.in_string ELSE t.in_string
            statement == Strip(t.current_statement)
        IN  IF char = ";" /\ ~ins
            THEN [t EXCEPT !.in_string = ins,
                           !.statements = IF AivenKeeps(statement)
                                          THEN Append(@, statement)
                                          ELSE @,
                           !.current_statement = <<>>]
            ELSE [t EXCEPT !.in_string = ins,
                           !.current_statement = Append(@, char)]

\* upload_chunk (Aiven): one iteration of `for char in sql_content`
AivenTokStep(t, char) ==
    IF t.escape_next
    THEN [t EXCEPT !.current_statement = Append(@, char), !.escape_next = FALSE]
    ELSE IF char = "\\"
    THEN [t EXCEPT !.escape_next = TRUE, !.current_statement = Append(@, char)]
    ELSE
        LET ins == IF char \in AivenQuoteChars THEN ~t.in_string ELSE t.in_string
            statement == Strip(t.current_statement)
        IN  IF char = ";" /\ ~ins
            THEN [t EXCEPT !.in_string = ins,
                           !.statements = IF AivenKeeps(statement)
                                          THEN Append(@, statement)
                                          ELSE @,
                           !.current_statement = <<>>]
            ELSE [t EXCEPT !.in_string = ins,
                           !.current_statement = Append(@, char)]

\* the whole loops: the statements found in a text

\* the iterations lo..hi of `for char in content`: the first half, then the
\* second half from the state the first half left
RECURSIVE SplitTokRange(_, _, _, _)
SplitTokRange(t, text, lo, hi) ==
    IF lo > hi THEN t
    ELSE IF lo = hi THEN SplitTokStep(t, text[lo])
    ELSE CHOOSE u \in {SplitTokRange(m, text, (lo + hi) \div 2 + 1, hi) :
                          m \in {SplitTokRange(t, text, lo, (lo + hi) \div 2)}} : TRUE

SplitTokRun(t, text) == SplitTokRange(t, text, 1, Len(text))

SplitTokenize(text) == SplitTokRun(SplitTokInit, text).statements

\* the iterations lo..hi of `for char in content`: the first half, then the
\* second half from the state the first half left
RECURSIVE UpTokRange(_, _, _, _)
UpTokRange(t, text, lo, hi) ==
    IF lo > hi THEN t
    ELSE IF lo = hi THEN UpTokStep(t, text[lo])
    ELSE CHOOSE u \in {UpTokRange(m, text, (lo + hi) \div 2 + 1, hi) :
                          m \in {UpTokRange(t, text, lo, (lo + hi) \div 2)}} : TRUE

UpTokRun(t, text) == UpTokRange(t, text, 1, Len(text))

UpTokenize(text) == UpTokRun(UpTokInit, text).statements

\* the iterations lo..hi of `for char in content`: the first half, then the
\* second half from the state the first half left
RECURSIVE AivenTokRange(_, _, _, _)
AivenTokRange(t, text, lo, hi) ==
    IF lo > hi THEN t
    ELSE IF lo = hi THEN AivenTokStep(t, text[lo])
    ELSE CHOOSE u \in {AivenTokRange(m, text, (lo + hi) \div 2 + 1, hi) :
                          m \in {AivenTokRange(t, text, lo, (lo + hi) \div 2)}} : TRUE

AivenTokRun(t, text) == AivenTokRange(t, text, 1, Len(text))

AivenTokenize(text) == AivenTokRun(AivenTokInit, text).statements

----------------------------------------------------------------------------
(* SpecTok: the three tokenizer loops scanning the same text *)

\* the characters the scanned texts are drawn from
TokChars == {"'", "\"", "\\", ";", "a", " "}

UploadIdle ==
    /\ loader = "none"
    /\ file_exists = FALSE
    /\ rpc = "idle"
    /\ temp_dir = "None"
    /\ main_i = 0
    /\ failed_chunks = <<>>
    /\ retry_i = 0
    /\ total_success = 0
    /\ total_errors = 0
    /\ result = "none"
    /\ cpc = "idle"
    /\ chunk_num = 0
    /\ conn_open = FALSE
    /\ chunk_statements = <<>>
    /\ si = 0
    /\ success_count = 0
    /\ error_count = 0
    /\ ret = "none"
    /\ calls = <<>>
    /\ tmp_on_disk = FALSE

\* main has not been started
MainIdle ==
    /\ mpc = "idle"
    /\ exit_status = "running"
    /\ databases = {}
    /\ tables = {}
    /\ cleanup_ret = "none"
    /\ drops_failed = {}
    /\ cleanup_fault = "none"
    /\ cleanup_runs = 0
    /\ drops_issued = <<>>

SplitIdle ==
    /\ chunk_size_mb = 0
    /\ statements = <<>>
    /\ chunk_stmts = <<>>
    /\ chunk_files = <<>>
    /\ spc = "idle"

InitTok ==
    /\ content \in SeqsUpTo(TokChars, MaxLen)
    /\ pos = 0
    /\ split_tok = SplitTokInit
    /\ up_tok = UpTokInit
    /\ aiven_tok = AivenTokInit
    /\ SplitIdle
    /\ UploadIdle
    /\ MainIdle

\* each loop consumes the next character of the text
ReadChar ==
    /\ pos < Len(content)
    /\ pos' = pos + 1
    /\ split_tok' = SplitTokStep(split_tok, content[pos + 1])
    /\ up_tok' = UpTokStep(up_tok, content[pos + 1])
    /\ aiven_tok' = AivenTokStep(aiven_tok, content[pos + 1])
    /\ UNCHANGED <<content, splitVars, uploadVars, mainVars>>

NextTok == ReadChar

SpecTok == InitTok /\ [][NextTok]_vars

----------------------------------------------------------------------------
(* split_sql_file of the Railway loader: the chunk planner *)

\* chunk_size_bytes = chunk_size_mb * 1024 * 1024
ChunkSizeBytes(mb) == mb * MB

\* mutation of IsSchemaStmt: the .upper() is forgotten
IsSchemaStmtCaseSensitive(stmt) ==
    \/ StartsWith(Strip(stmt), KwCREATE)
    \/ StartsWith(Strip(stmt), KwUSE)

\* the test that sends a statement to create_statements
IsSchemaStmt(stmt) ==
    \/ StartsWith(Strip(Upper(stmt)), KwCREATE)
    \/ StartsWith(Strip(Upper(stmt)), KwUSE)

IsOtherStmt(stmt) == ~IsSchemaStmt(stmt)

\* stmt_size = len((stmt + '\n').encode('utf-8'))
StmtSize(stmt) == Utf8Len(stmt \o <<"\n">>)

\* mutation of ChunkIsFull: the chunk is closed already when the statement
\* fills it to the budget
ChunkIsFullEarly(current_chunk_size, stmt_size, chunk_size_bytes) ==
    current_chunk_size > 0 /\ current_chunk_size + stmt_size >= chunk_size_bytes

\* mutation of ChunkIsFull: the chunk is closed only once it is over budget
ChunkIsFullLate(current_chunk_size, stmt_size, chunk_size_bytes) ==
    current_chunk_size > chunk_size_bytes

\* the test that closes the current chunk before stmt is added
ChunkIsFull(current_chunk_size, stmt_size, chunk_size_bytes) ==
    current_chunk_size > 0 /\ current_chunk_size + stmt_size > chunk_size_bytes

\* state of the packing loop before the first statement
PackInit ==
    [written |-> <<>>, current_chunk_content |-> <<>>, current_chunk_size |-> 0]

\* mutation of PackStep: the statement that closes a chunk is not carried
\* over into the next one
PackStepDropsOnFlush(p, stmt, chunk_size_bytes) ==
    LET stmt_size == StmtSize(stmt)
    IN  IF ChunkIsFull(p.current_chunk_size, stmt_size, chunk_size_bytes)
        THEN [written |-> Append(p.written, p.current_chunk_content),
              current_chunk_content |-> <<>>,
              current_chunk_size |-> 0]
        ELSE [p EXCEPT !.current_chunk_content = Append(@, stmt),
                       !.current_chunk_size = @ + stmt_size]

\* one iteration of `for stmt in other_statements`
PackStep(p, stmt, chunk_size_bytes) ==
    LET stmt_size == StmtSize(stmt)
        q == IF ChunkIsFull(p.current_chunk_size, stmt_size, chunk_size_bytes)
             THEN [written |-> Append(p.written, p.current_chunk_content),
                   current_chunk_content |-> <<>>,
                   current_chunk_size |-> 0]
             ELSE p
    IN  [q EXCEPT !.current_chunk_content = Append(@, stmt),
                  !.current_chunk_size = @ + stmt_size]

RECURSIVE PackRun(_, _, _)
PackRun(p, stmts, chunk_size_bytes) ==
    IF stmts = <<>> THEN p
    ELSE PackRun(PackStep(p, Head(stmts), chunk_size_bytes), Tail(stmts),
                 chunk_size_bytes)

\* the statement lists of chunks 2.., the final chunk written only if non-empty
DataChunks(other_statements, chunk_size_bytes) ==
    LET p == PackRun(PackInit, other_statements, chunk_size_bytes)
    IN  IF p.current_chunk_content # <<>>
        THEN Append(p.written, p.current_chunk_content)
        ELSE p.written

\* the statement lists of all chunk files, chunk #1 first
PlanChunks(stmts, chunk_size_bytes) ==
    <<SelectSeq(stmts, IsSchemaStmt)>>
        \o DataChunks(SelectSeq(stmts, IsOtherStmt), chunk_size_bytes)

----------------------------------------------------------------------------
(* SpecSplit: split_sql_file applied to a dump *)

\* the statement texts the dumps of SpecSplit are made of
PieceCreate == <<"C", "R", "E", "A", "T", "E", " ", "t", ";", "\n">>
PieceUse    == <<"u", "s", "e", " ", "d", ";", "\n">>
PieceInsert == <<"I", " ", "1", ";", "\n">>
PieceInsertWide == <<"I", " ", "é", ";", "\n">>
PieceDrop   == <<"D", "R", "O", "P", " ", "t", ";", "\n">>
PieceUsex   == <<"U", "S", "E", "X", ";", "\n">>

Pieces ==
    {PieceCreate, PieceUse, PieceInsert, PieceInsertWide, PieceDrop, PieceUsex}

Dumps == {Flatten(ps) : ps \in SeqsUpTo(Pieces, MaxStmts)}

TokIdle ==
    /\ pos = 0
    /\ split_tok = SplitTokInit
    /\ up_tok = UpTokInit
    /\ aiven_tok = AivenTokInit

InitSplit ==
    /\ content \in Dumps
    /\ chunk_size_mb \in 1..MaxBudget
    /\ statements = <<>>
    /\ chunk_stmts = <<>>
    /\ chunk_files = <<>>
    /\ spc = "init"
    /\ TokIdle
    /\ UploadIdle
    /\ MainIdle

\* the call split_sql_file(sql_file_path, chunk_size_mb)
SplitSqlFile ==
    /\ spc = "init"
    /\ statements' = SplitTokenize(content)
    /\ chunk_stmts' = PlanChunks(statements', ChunkSizeBytes(chunk_size_mb))
    /\ chunk_files' = [k \in 1..Len(chunk_stmts') |-> JoinLines(chunk_stmts'[k])]
    /\ spc' = "done"
    /\ UNCHANGED <<content, chunk_size_mb, pos, split_tok, up_tok, aiven_tok,
                   uploadVars, mainVars>>

NextSplit == SplitSqlFile

SpecSplit == InitSplit /\ [][NextSplit]_vars

----------------------------------------------------------------------------
(* split_sql_file of the Aiven loader: chunks are runs of whole lines *)

\* `for line in file`: the lines of a text, each with its line ending
LineEnds(text) == {k \in 1..Len(text) : text[k] = "\n"}

\* the end of the line that begins at position lo
LineEnd(text, lo) ==
    IF \E k \in LineEnds(text) : k >= lo
    THEN CHOOSE k \in LineEnds(text) :
             k >= lo /\ \A h \in LineEnds(text) : h >= lo => k <= h
    ELSE Len(text)

RECURSIVE LinesFrom(_, _)
LinesFrom(text, lo) ==
    IF lo > Len(text) THEN <<>>
    ELSE <<SubSeq(text, lo, LineEnd(text, lo))>>
             \o LinesFrom(text, LineEnd(text, lo) + 1)

LinesOf(text) == LinesFrom(text, 1)

\* str.endswith(';')
EndsWithSemicolon(s) == s # <<>> /\ s[Len(s)] = ";"

\* one iteration of `for line in file`
AivenSplitStep(p, line, chunk_size_bytes) ==
    LET lines == Append(p.current_chunk_content, line)
        size == p.current_chunk_size + Utf8Len(line)
    IN  IF size >= chunk_size_bytes /\ EndsWithSemicolon(Strip(line))
        THEN [written |-> Append(p.written, Flatten(lines)),
              current_chunk_content |-> <<>>,
              current_chunk_size |-> 0]
        ELSE [written |-> p.written,
              current_chunk_content |-> lines,
              current_chunk_size |-> size]

RECURSIVE AivenSplitRun(_, _, _)
AivenSplitRun(p, lines, chunk_size_bytes) ==
    IF lines = <<>> THEN p
    ELSE AivenSplitRun(AivenSplitStep(p, Head(lines), chunk_size_bytes),
                       Tail(lines), chunk_size_bytes)

\* the texts of the chunk files, the final chunk written only if non-empty
AivenSplitFiles(text, chunk_size_bytes) ==
    LET p == AivenSplitRun(PackInit, LinesOf(text), chunk_size_bytes)
    IN  IF p.current_chunk_content # <<>>
        THEN Append(p.written, Flatten(p.current_chunk_content))
        ELSE p.written

----------------------------------------------------------------------------
(* upload_sql_file_chunked and upload_chunk of both loaders *)

\* Railway: `if file_size_mb <= 60` and split_sql_file(..., chunk_size_mb=15)
RailwaySmallFileMb == 60
RailwayChunkSizeMb == 15
\* Aiven: `if file_size_mb <= 5` and split_sql_file(..., chunk_size_mb=5)
AivenSmallFileMb == 5
AivenChunkSizeMb == 5
\* Railway upload_chunk: commit every batch_size statements
batch_size == 50
\* Aiven upload_chunk: `if error_count <= 5`, the errors that are looked at
AivenErrorsShown == 5

\* what cursor.execute(statement) can do: succeed, raise an Error, raise
\* the Error "The table ... is full", or raise the Error of a connection
\* that is lost (every later call on the connection raises it too)
StmtOutcomes == {"ok", "error", "table_full", "connection_lost"}

\* a Python bool as it is reported
PyBool(b) == IF b THEN "True" ELSE "False"

\* the text upload_chunk reads: the dump itself on the direct path
ChunkText == IF rpc = "direct" THEN content ELSE chunk_files[chunk_num]

NewCall(k) ==
    [chunk |-> k, success |-> "pending", executed |-> 0, failed |-> 0,
     commit |-> "none", rollback |-> FALSE, critical |-> 0,
     since_commit |-> 0, lost |-> FALSE]

\* the call upload_chunk(chunk_file, k, total_chunks)
BeginAttempt(k) ==
    /\ cpc' = "connect"
    /\ chunk_num' = k
    /\ conn_open' = FALSE
    /\ chunk_statements' = <<>>
    /\ si' = 0
    /\ success_count' = 0
    /\ error_count' = 0
    /\ ret' = "none"
    /\ calls' = Append(calls, NewCall(k))

\* variant: the failed attempt returns without closing its connection
FailAttemptLeavesOpen ==
    /\ ret' = [success |-> FALSE, success_count |-> 0, error_count |-> 0]
    /\ cpc' = "returned"
    /\ UNCHANGED conn_open
    /\ calls' = [calls EXCEPT ![Len(calls)].success = "False"]

\* `except Error` of upload_chunk: return False, 0, 0; finally: close
FailAttempt ==
    /\ ret' = [success |-> FALSE, success_count |-> 0, error_count |-> 0]
    /\ cpc' = "returned"
    /\ conn_open' = FALSE
    /\ calls' = [calls EXCEPT ![Len(calls)].success = "False"]

\* the caller has consumed the returned tuple: upload_chunk's locals are gone
ForgetAttempt ==
    /\ cpc' = "idle"
    /\ chunk_statements' = <<>>
    /\ si' = 0
    /\ success_count' = 0
    /\ error_count' = 0
    /\ ret' = "none"
    /\ UNCHANGED <<chunk_num, conn_open, calls>>

\* `finally: if temp_dir and os.path.exists(temp_dir): shutil.rmtree(temp_dir)`
TempDirAfterCleanup == IF temp_dir = "exists" THEN "removed" ELSE temp_dir

\* the finally clause: the directory is removed only if temp_dir names it
RemoveTempDir ==
    /\ temp_dir' = TempDirAfterCleanup
    /\ tmp_on_disk' = (tmp_on_disk /\ temp_dir # "exists")

\* `return len(failed_chunks) == 0`
RailwayRunResult(failed) == Len(failed) = 0

\* ---- upload_sql_file_chunked

\* `if not os.path.exists(sql_file_path): return False`
Start_FileMissing ==
    /\ rpc = "start"
    /\ ~file_exists
    /\ result' = "False"
    /\ rpc' = "done"
    /\ UNCHANGED <<mainVars, tmp_on_disk, tokVars, splitVars, loader, file_exists, temp_dir, main_i,
                   failed_chunks, retry_i, total_success, total_errors,
                   chunkVars, calls>>

SmallFileMb == IF loader = "railway" THEN RailwaySmallFileMb ELSE AivenSmallFileMb

\* small file: `return upload_chunk(sql_file_path, 1, 1)[0]`
Start_Direct ==
    /\ rpc = "start"
    /\ file_exists
    /\ Utf8Len(content) <= SmallFileMb * MB
    /\ rpc' = "direct"
    /\ BeginAttempt(1)
    /\ UNCHANGED <<mainVars, tmp_on_disk, tokVars, splitVars, loader, file_exists, temp_dir, main_i,
                   failed_chunks, retry_i, total_success, total_errors, result>>

\* Railway: `temp_dir, chunk_files = split_sql_file(sql_file_path, 15)`
R_Start_Split ==
    /\ rpc = "start"
    /\ loader = "railway"
    /\ file_exists
    /\ Utf8Len(content) > RailwaySmallFileMb * MB
    /\ chunk_size_mb' = RailwayChunkSizeMb
    /\ statements' = SplitTokenize(content)
    /\ chunk_stmts' = PlanChunks(statements', ChunkSizeBytes(chunk_size_mb'))
    /\ chunk_files' = [k \in 1..Len(chunk_stmts') |-> JoinLines(chunk_stmts'[k])]
    /\ temp_dir' = "exists"
    /\ tmp_on_disk' = TRUE
    /\ main_i' = 1
    /\ rpc' = "main"
    /\ UNCHANGED <<mainVars, tokVars, spc, loader, file_exists, failed_chunks, retry_i,
                   total_success, total_errors, result, chunkVars, calls>>

\* Aiven: `temp_dir, chunk_files = split_sql_file(sql_file_path)`
A_Start_Split ==
    /\ rpc = "start"
    /\ loader = "aiven"
    /\ file_exists
    /\ Utf8Len(content) > AivenSmallFileMb * MB
    /\ chunk_size_mb' = AivenChunkSizeMb
    /\ chunk_files' = AivenSplitFiles(content, ChunkSizeBytes(chunk_size_mb'))
    /\ temp_dir' = "exists"
    /\ tmp_on_disk' = TRUE
    /\ main_i' = 1
    /\ rpc' = "main"
    /\ UNCHANGED <<mainVars, tokVars, statements, chunk_stmts, spc, loader, file_exists,
                   failed_chunks, retry_i, total_success, total_errors, result,
                   chunkVars, calls>>

\* split_sql_file raises after tempfile.mkdtemp (the dump cannot be read or
\* decoded, a chunk file cannot be written): temp_dir of
\* upload_sql_file_chunked is still None when its finally clause runs
Split_Raises ==
    /\ rpc = "start"
    /\ file_exists
    /\ Utf8Len(content) > SmallFileMb * MB
    /\ tmp_on_disk' = TRUE
    /\ result' = "exception"
    /\ rpc' = "done"
    /\ UNCHANGED <<mainVars, tokVars, splitVars, loader, file_exists, temp_dir,
                   main_i, failed_chunks, retry_i, total_success, total_errors,
                   chunkVars, calls>>

\* main loop: `upload_chunk(chunk_file, i, len(chunk_files))`
CallMain ==
    /\ rpc = "main"
    /\ cpc = "idle"
    /\ main_i <= Len(chunk_files)
    /\ BeginAttempt(main_i)
    /\ UNCHANGED <<mainVars, tmp_on_disk, tokVars, splitVars, runVars>>

\* variant: every chunk is put on the retry list
GoesOnRetryListAlways(r) == TRUE

\* Railway main loop: `if not success: failed_chunks.append(...)`
GoesOnRetryList(r) == ~r.success

\* Railway main loop: a failed chunk goes on the retry list, the loop goes on
R_ReturnMain ==
    /\ rpc = "main"
    /\ loader = "railway"
    /\ cpc = "returned"
    /\ IF GoesOnRetryList(ret)
       THEN /\ failed_chunks' = Append(failed_chunks, main_i)
            /\ UNCHANGED <<total_success, total_errors>>
       ELSE /\ total_success' = total_success + ret.success_count
            /\ total_errors' = total_errors + ret.error_count
            /\ UNCHANGED failed_chunks
    /\ main_i' = main_i + 1
    /\ ForgetAttempt
    /\ UNCHANGED <<mainVars, tmp_on_disk, tokVars, splitVars, loader, file_exists, rpc, temp_dir,
                   retry_i, result>>

\* Railway: the main loop is over: retry pass, or summary and return
R_EndMain ==
    /\ rpc = "main"
    /\ loader = "railway"
    /\ cpc = "idle"
    /\ main_i > Len(chunk_files)
    /\ IF failed_chunks # <<>>
       THEN /\ rpc' = "retry"
            /\ retry_i' = 1
            /\ UNCHANGED <<result, temp_dir, tmp_on_disk>>
       ELSE /\ result' = PyBool(RailwayRunResult(failed_chunks))
            /\ RemoveTempDir
            /\ rpc' = "done"
            /\ UNCHANGED retry_i
    /\ UNCHANGED <<mainVars, tokVars, splitVars, loader, file_exists, main_i,
                   failed_chunks, total_success, total_errors, chunkVars, calls>>

\* Railway retry pass: `upload_chunk(chunk_file, chunk_num, len(chunk_files))`
R_CallRetry ==
    /\ rpc = "retry"
    /\ cpc = "idle"
    /\ retry_i <= Len(failed_chunks)
    /\ BeginAttempt(failed_chunks[retry_i])
    /\ UNCHANGED <<mainVars, tmp_on_disk, tokVars, splitVars, runVars>>

\* Railway retry pass: the totals are updated on success, nothing else is
R_ReturnRetry ==
    /\ rpc = "retry"
    /\ cpc = "returned"
    /\ IF ret.success
       THEN /\ total_success' = total_success + ret.success_count
            /\ total_errors' = total_errors + ret.error_count
       ELSE UNCHANGED <<total_success, total_errors>>
    /\ retry_i' = retry_i + 1
    /\ ForgetAttempt
    /\ UNCHANGED <<mainVars, tmp_on_disk, tokVars, splitVars, loader, file_exists, rpc, temp_dir,
                   main_i, failed_chunks, result>>

\* Railway: the retry pass is over: summary, return, finally
R_EndRetry ==
    /\ rpc = "retry"
    /\ cpc = "idle"
    /\ retry_i > Len(failed_chunks)
    /\ result' = PyBool(RailwayRunResult(failed_chunks))
    /\ RemoveTempDir
    /\ rpc' = "done"
    /\ UNCHANGED <<mainVars, tokVars, splitVars, loader, file_exists, main_i,
                   failed_chunks, retry_i, total_success, total_errors,
                   chunkVars, calls>>

\* Aiven main loop: `if not success: return False`
A_ReturnMain ==
    /\ rpc = "main"
    /\ loader = "aiven"
    /\ cpc = "returned"
    /\ IF ~ret.success
       THEN /\ result' = "False"
            /\ RemoveTempDir
            /\ rpc' = "done"
            /\ UNCHANGED <<total_success, total_errors, main_i>>
       ELSE /\ total_success' = total_success + ret.success_count
            /\ total_errors' = total_errors + ret.error_count
            /\ main_i' = main_i + 1
            /\ UNCHANGED <<result, temp_dir, tmp_on_disk, rpc>>
    /\ ForgetAttempt
    /\ UNCHANGED <<mainVars, tokVars, splitVars, loader, file_exists, failed_chunks,
                   retry_i>>

\* Aiven: the loop is over: summary, `return True`, finally
A_EndMain ==
    /\ rpc = "main"
    /\ loader = "aiven"
    /\ cpc = "idle"
    /\ main_i > Len(chunk_files)
    /\ result' = "True"
    /\ RemoveTempDir
    /\ rpc' = "done"
    /\ UNCHANGED <<mainVars, tokVars, splitVars, loader, file_exists, main_i,
                   failed_chunks, retry_i, total_success, total_errors,
                   chunkVars, calls>>

\* small file: the result is the success flag of the one call
ReturnDirect ==
    /\ rpc = "direct"
    /\ cpc = "returned"
    /\ result' = PyBool(ret.success)
    /\ rpc' = "done"
    /\ ForgetAttempt
    /\ UNCHANGED <<mainVars, tmp_on_disk, tokVars, splitVars, loader, file_exists, temp_dir, main_i,
                   failed_chunks, retry_i, total_success, total_errors>>

\* an exception that upload_chunk does not catch leaves
\* upload_sql_file_chunked through its finally
Propagate ==
    /\ cpc = "raised"
    /\ result' = "exception"
    /\ RemoveTempDir
    /\ rpc' = "done"
    /\ cpc' = "idle"
    /\ UNCHANGED <<mainVars, tokVars, splitVars, loader, file_exists, main_i,
                   failed_chunks, retry_i, total_success, total_errors,
                   chunk_num, conn_open, chunk_statements, si, success_count,
                   error_count, ret, calls>>

\* ---- upload_chunk

\* the connect call: it succeeds or raises an Error
Connect ==
    /\ cpc = "connect"
    /\ \E ok \in BOOLEAN :
         IF ok
         THEN /\ conn_open' = TRUE
              /\ cpc' = "prepare"
              /\ UNCHANGED <<ret, calls>>
         ELSE FailAttempt
    /\ UNCHANGED <<mainVars, tmp_on_disk, tokVars, splitVars, runVars, chunk_num, chunk_statements,
                   si, success_count, error_count>>

\* Railway: session settings (an Error is ignored), USE (an Error fails the
\* attempt), then the chunk file is read and tokenized
R_Prepare ==
    /\ cpc = "prepare"
    /\ loader = "railway"
    /\ \E ok \in BOOLEAN :
         IF ok
         THEN /\ chunk_statements' = UpTokenize(ChunkText)
              /\ cpc' = "exec"
              /\ UNCHANGED <<ret, calls, conn_open>>
         ELSE FailAttempt /\ UNCHANGED chunk_statements
    /\ UNCHANGED <<mainVars, tmp_on_disk, tokVars, splitVars, runVars, chunk_num, si, success_count,
                   error_count>>

\* Aiven: session settings, DROP/CREATE DATABASE for chunk 1, USE (an Error
\* in any of them fails the attempt), then the file is read and tokenized
A_Prepare ==
    /\ cpc = "prepare"
    /\ loader = "aiven"
    /\ \E ok \in BOOLEAN :
         IF ok
         THEN /\ chunk_statements' = AivenTokenize(ChunkText)
              /\ cpc' = "exec"
              /\ UNCHANGED <<ret, calls, conn_open>>
         ELSE FailAttempt /\ UNCHANGED chunk_statements
    /\ UNCHANGED <<mainVars, tmp_on_disk, tokVars, splitVars, runVars, chunk_num, si, success_count,
                   error_count>>

\* the call record after statement number n was passed to cursor.execute
Executed(c, n, outcome) ==
    [c EXCEPT !.executed = @ + 1,
              !.failed = IF outcome = "ok" THEN @ ELSE @ + 1,
              !.critical = IF outcome = "table_full" /\ @ = 0 THEN n ELSE @,
              !.since_commit = @ + 1,
              !.lost = @ \/ outcome = "connection_lost"]

\* what the next cursor.execute can do on the connection of the attempt
OutcomesNow ==
    IF calls[Len(calls)].lost THEN {"connection_lost"} ELSE StmtOutcomes

\* Railway: one iteration of `for i, statement in enumerate(statements)`.
\* An Error of the statement, or of the commit that follows every
\* batch_size-th statement, is counted and the loop goes on.
R_ExecStmt ==
    /\ cpc = "exec"
    /\ loader = "railway"
    /\ si < Len(chunk_statements)
    /\ \E outcome \in OutcomesNow, commit_ok \in BOOLEAN :
         LET commits == outcome = "ok" /\ (si + 1) % batch_size = 0
         IN  /\ ~commits => commit_ok
             /\ success_count' =
                    IF outcome = "ok" THEN success_count + 1 ELSE success_count
             /\ error_count' =
                    IF outcome # "ok" \/ ~commit_ok
                    THEN error_count + 1 ELSE error_count
             /\ calls' = [calls EXCEPT ![Len(calls)] =
                              [Executed(@, si + 1, outcome) EXCEPT
                                   !.since_commit = IF commits THEN 0 ELSE @]]
    /\ si' = si + 1
    /\ UNCHANGED <<mainVars, tmp_on_disk, tokVars, splitVars, runVars, cpc, chunk_num, conn_open,
                   chunk_statements, ret>>

\* variant: every error that is looked at is taken as critical
AivenIsCriticalAnyError(outcome, errors) == errors <= AivenErrorsShown

\* Aiven: `if "table" in error_msg.lower() and "full" in error_msg.lower()`,
\* reached only `if error_count <= 5`
AivenIsCritical(outcome, errors) ==
    errors <= AivenErrorsShown /\ outcome = "table_full"

\* Aiven: one iteration of `for i, statement in enumerate(statements)`.
\* A critical Error is raised again and fails the attempt.
A_ExecStmt ==
    /\ cpc = "exec"
    /\ loader = "aiven"
    /\ si < Len(chunk_statements)
    /\ \E outcome \in OutcomesNow :
         LET errors == IF outcome = "ok" THEN error_count ELSE error_count + 1
             logged == [calls EXCEPT ![Len(calls)] = Executed(@, si + 1, outcome)]
         IN  IF outcome # "ok" /\ AivenIsCritical(outcome, errors)
             THEN /\ ret' = [success |-> FALSE, success_count |-> 0,
                             error_count |-> 0]
                  /\ cpc' = "returned"
                  /\ conn_open' = FALSE
                  /\ calls' = [logged EXCEPT ![Len(calls)].success = "False"]
                  /\ error_count' = errors
                  /\ UNCHANGED success_count
             ELSE /\ success_count' =
                         IF outcome = "ok" THEN success_count + 1 ELSE success_count
                  /\ error_count' = errors
                  /\ calls' = logged
                  /\ UNCHANGED <<ret, cpc, conn_open>>
    /\ si' = si + 1
    /\ UNCHANGED <<mainVars, tmp_on_disk, tokVars, splitVars, runVars, chunk_num, chunk_statements>>

\* Railway: print_progress_bar(len(statements), len(statements), ...) divides
\* by its total: a chunk without statements raises ZeroDivisionError, which
\* `except Error` does not catch; finally closes the connection
R_ProgressRaises ==
    /\ cpc = "exec"
    /\ loader = "railway"
    /\ si = Len(chunk_statements)
    /\ Len(chunk_statements) = 0
    /\ cpc' = "raised"
    /\ conn_open' = FALSE
    /\ calls' = [calls EXCEPT ![Len(calls)].success = "raised"]
    /\ UNCHANGED <<mainVars, tmp_on_disk, tokVars, splitVars, runVars, chunk_num, chunk_statements,
                   si, success_count, error_count, ret>>

\* the end of upload_chunk after the loop: final commit (on an Error a
\* rollback is tried), constraints re-enabled (an Error is ignored),
\* `return True, success_count, error_count`, finally closes the connection
FinishAttempt ==
    /\ \E commit_ok \in BOOLEAN :
         /\ calls[Len(calls)].lost => ~commit_ok
         /\ calls' = [calls EXCEPT ![Len(calls)].success = "True",
                                ![Len(calls)].commit =
                                    IF commit_ok THEN "ok" ELSE "failed",
                                ![Len(calls)].rollback = ~commit_ok]
    /\ ret' = [success |-> TRUE, success_count |-> success_count,
               error_count |-> error_count]
    /\ cpc' = "returned"
    /\ conn_open' = FALSE

R_Finish ==
    /\ cpc = "exec"
    /\ loader = "railway"
    /\ si = Len(chunk_statements)
    /\ Len(chunk_statements) > 0
    /\ FinishAttempt
    /\ UNCHANGED <<mainVars, tmp_on_disk, tokVars, splitVars, runVars, chunk_num, chunk_statements,
                   si, success_count, error_count>>

A_Finish ==
    /\ cpc = "exec"
    /\ loader = "aiven"
    /\ si = Len(chunk_statements)
    /\ FinishAttempt
    /\ UNCHANGED <<mainVars, tmp_on_disk, tokVars, splitVars, runVars, chunk_num, chunk_statements,
                   si, success_count, error_count>>

----------------------------------------------------------------------------
(* SpecUpload: one run of upload_sql_file_chunked of either loader *)

RECURSIVE Repeat(_, _)
Repeat(s, n) == IF n = 0 THEN <<>> ELSE s \o Repeat(s, n - 1)

LineInsert1 == <<"I", " ", "1", ";", "\n">>
LineInsert2 == <<"I", " ", "2", ";", "\n">>
LineCreateT ==
    <<"C", "R", "E", "A", "T", "E", " ", "T", "A", "B", "L", "E", " ",
      "t", "(", "i", "d", " ", "I", "N", "T", ")", ";", "\n">>
LineInsertLong ==
    <<"I", "N", "S", "E", "R", "T", " ", "I", "N", "T", "O", " ", "t", " ",
      "V", "A", "L", "U", "E", "S", " ", "(", "1", ")", ";", "\n">>

\* 5 bytes: sent directly by both loaders
DumpTiny == LineInsert1
\* one line of six statements: one Aiven chunk of six statements
DumpLine6 == Repeat(<<"a", ";">>, 6) \o <<"\n">>
\* 20 bytes: sent directly by Railway, three chunks for Aiven
DumpSmall == PieceCreate \o LineInsert1 \o LineInsert2
\* 68 bytes: Railway chunks {2 CREATE}, {3 inserts}, {1 insert}
DumpLarge == LineCreateT \o LineCreateT \o Repeat(LineInsert1, 4)
\* 78 bytes without a CREATE or USE: Railway's chunk #1 has no statement
DumpDataOnly == Repeat(LineInsertLong, 3)

UploadDumps == {DumpTiny, DumpLine6, DumpSmall, DumpLarge, DumpDataOnly}

InitUpload ==
    /\ content \in UploadDumps
    /\ TokIdle
    /\ chunk_size_mb = 0
    /\ statements = <<>>
    /\ chunk_stmts = <<>>
    /\ chunk_files = <<>>
    /\ spc = "idle"
    /\ loader \in {"railway", "aiven"}
    /\ file_exists \in BOOLEAN
    /\ rpc = "start"
    /\ temp_dir = "None"
    /\ main_i = 0
    /\ failed_chunks = <<>>
    /\ retry_i = 0
    /\ total_success = 0
    /\ total_errors = 0
    /\ result = "none"
    /\ cpc = "idle"
    /\ chunk_num = 0
    /\ conn_open = FALSE
    /\ chunk_statements = <<>>
    /\ si = 0
    /\ success_count = 0
    /\ error_count = 0
    /\ ret = "none"
    /\ calls = <<>>
    /\ tmp_on_disk = FALSE
    /\ MainIdle

NextUpload ==
    \/ Start_FileMissing
    \/ Start_Direct
    \/ R_Start_Split
    \/ A_Start_Split
    \/ Split_Raises
    \/ CallMain
    \/ R_ReturnMain
    \/ R_EndMain
    \/ R_CallRetry
    \/ R_ReturnRetry
    \/ R_EndRetry
    \/ A_ReturnMain
    \/ A_EndMain
    \/ ReturnDirect
    \/ Propagate
    \/ Connect
    \/ R_Prepare
    \/ A_Prepare
    \/ R_ExecStmt
    \/ A_ExecStmt
    \/ R_ProgressRaises
    \/ R_Finish
    \/ A_Finish

SpecUpload == InitUpload /\ [][NextUpload]_vars

----------------------------------------------------------------------------
(* SpecBatch: a run over a chunk with more statements than one batch *)

\* one line of batch_size + 1 USE statements, 205 bytes: for Railway all of
\* them are in chunk #1, for Aiven the line is one chunk
DumpBatch == Repeat(<<"U", "S", "E", ";">>, batch_size + 1) \o <<"\n">>

BatchDumps == {DumpBatch, DumpDataOnly, DumpTiny}

InitBatch ==
    /\ content \in BatchDumps
    /\ TokIdle
    /\ SplitIdle
    /\ loader \in {"railway", "aiven"}
    /\ file_exists \in BOOLEAN
    /\ rpc = "start"
    /\ temp_dir = "None"
    /\ main_i = 0
    /\ failed_chunks = <<>>
    /\ retry_i = 0
    /\ total_success = 0
    /\ total_errors = 0
    /\ result = "none"
    /\ cpc = "idle"
    /\ chunk_num = 0
    /\ conn_open = FALSE
    /\ chunk_statements = <<>>
    /\ si = 0
    /\ success_count = 0
    /\ error_count = 0
    /\ ret = "none"
    /\ calls = <<>>
    /\ tmp_on_disk = FALSE
    /\ MainIdle

NextBatch == NextUpload

SpecBatch == InitBatch /\ [][NextBatch]_vars

----------------------------------------------------------------------------
(* The pre-flight cleanup: clear_railway_database and clean_aiven_database *)

\* clean_aiven_database: system_databases
SystemDatabases ==
    {"information_schema", "mysql", "performance_schema", "sys",
     "mysql_innodb_cluster_metadata"}

\* clear_railway_database: os.getenv('DB_NAME', 'academicworld')
RailwayDbName == "academicworld"

\* the step of clear_railway_database that raises, if any
RailwayCleanupFaults == {"none", "connect", "drop", "create", "commit"}

\* the step of clean_aiven_database that raises outside the DROP loop, if any
AivenCleanupFaults == {"none", "connect", "show", "commit"}

\* variant: CREATE DATABASE without the DROP DATABASE IF EXISTS before it
ClearRailwayDatabaseNoDrop(dbs, tbls, fault) ==
    IF fault \in {"connect", "drop"} \/ RailwayDbName \in dbs
    THEN [databases |-> dbs, tables |-> tbls, ret |-> FALSE,
          drops_failed |-> {}, drops |-> <<>>]
    ELSE [databases |-> dbs \cup {RailwayDbName},
          tables |-> tbls,
          ret |-> fault = "none",
          drops_failed |-> {}, drops |-> <<>>]

\* clear_railway_database: connect, DROP DATABASE IF EXISTS, CREATE DATABASE,
\* commit; any exception makes it return False
ClearRailwayDatabase(dbs, tbls, fault) ==
    IF fault \in {"connect", "drop"}
    THEN [databases |-> dbs, tables |-> tbls, ret |-> FALSE,
          drops_failed |-> IF fault = "drop" THEN {RailwayDbName} ELSE {},
          drops |-> IF fault = "drop" THEN <<RailwayDbName>> ELSE <<>>]
    ELSE [databases |-> IF fault = "create"
                        THEN dbs \ {RailwayDbName}
                        ELSE dbs \cup {RailwayDbName},
          tables |-> tbls \ {RailwayDbName},
          ret |-> fault = "none",
          drops_failed |-> {},
          drops |-> <<RailwayDbName>>]

\* variant: the system databases are not filtered out
UserDatabasesAll(dbs) == dbs

\* clean_aiven_database: user_databases
UserDatabases(dbs) == dbs \ SystemDatabases

\* the rows of SHOW DATABASES that name the databases of S, in the order the
\* server lists them
Listed(S) ==
    CHOOSE q \in [1..Cardinality(S) -> S] : {q[i] : i \in 1..Cardinality(S)} = S

\* `for db in user_databases`: a DROP DATABASE IF EXISTS for each; an Error
\* (the databases of undropped) is printed and the loop goes on
RECURSIVE DropLoop(_, _, _)
DropLoop(d, user_databases, undropped) ==
    IF user_databases = <<>> THEN d
    ELSE LET db == Head(user_databases)
         IN  DropLoop([issued |-> Append(d.issued, db),
                       dropped |-> IF db \in undropped
                                   THEN d.dropped ELSE d.dropped \cup {db},
                       failed |-> IF db \in undropped
                                  THEN d.failed \cup {db} ELSE d.failed],
                      Tail(user_databases), undropped)

\* clean_aiven_database: connect, SHOW DATABASES, DROP DATABASE IF EXISTS for
\* every user database (an Error of a DROP is printed and the loop goes on:
\* undropped), commit; an Error elsewhere makes it return False
CleanAivenDatabase(dbs, tbls, fault, undropped) ==
    IF fault \in {"connect", "show"}
    THEN [databases |-> dbs, tables |-> tbls, ret |-> FALSE,
          drops_failed |-> {}, drops |-> <<>>]
    ELSE IF UserDatabases(dbs) = {}
    THEN [databases |-> dbs, tables |-> tbls, ret |-> TRUE,
          drops_failed |-> {}, drops |-> <<>>]
    ELSE LET d == DropLoop([issued |-> <<>>, dropped |-> {}, failed |-> {}],
                           Listed(UserDatabases(dbs)), undropped)
         IN  [databases |-> dbs \ d.dropped,
              tables |-> tbls \ d.dropped,
              ret |-> fault = "none",
              drops_failed |-> d.failed,
              drops |-> d.issued]

\* the cleanup call of the Railway loader
RailwayCleanup ==
    \E fault \in RailwayCleanupFaults :
        LET after == ClearRailwayDatabase(databases, tables, fault)
        IN  /\ databases' = after.databases
            /\ tables' = after.tables
            /\ cleanup_ret' = PyBool(after.ret)
            /\ drops_failed' = after.drops_failed
            /\ cleanup_fault' = fault
            /\ cleanup_runs' = cleanup_runs + 1
            /\ drops_issued' = after.drops

\* the cleanup call of the Aiven loader
AivenCleanup ==
    \E fault \in AivenCleanupFaults :
        \E undropped \in SUBSET UserDatabases(databases) :
            LET after == CleanAivenDatabase(databases, tables, fault, undropped)
            IN  /\ databases' = after.databases
                /\ tables' = after.tables
                /\ cleanup_ret' = PyBool(after.ret)
                /\ drops_failed' = after.drops_failed
                /\ cleanup_fault' = fault
                /\ cleanup_runs' = cleanup_runs + 1
                /\ drops_issued' = after.drops

----------------------------------------------------------------------------
(* SpecPreflight: the cleanup run twice in a row against the same target *)

\* the system databases of the target server in the model
SystemPresent == {"information_schema", "mysql"}

\* the user databases the target server may hold
UserNames == {"academicworld", "academicworldmini", "shop"}

\* upload_sql_file_chunked has not been called
RunIdle ==
    /\ rpc = "idle"
    /\ temp_dir = "None"
    /\ main_i = 0
    /\ failed_chunks = <<>>
    /\ retry_i = 0
    /\ total_success = 0
    /\ total_errors = 0
    /\ result = "none"
    /\ cpc = "idle"
    /\ chunk_num = 0
    /\ conn_open = FALSE
    /\ chunk_statements = <<>>
    /\ si = 0
    /\ success_count = 0
    /\ error_count = 0
    /\ ret = "none"
    /\ calls = <<>>
    /\ tmp_on_disk = FALSE

InitPreflight ==
    /\ TokIdle
    /\ SplitIdle
    /\ RunIdle
    /\ loader \in {"railway", "aiven"}
    /\ file_exists = FALSE
    /\ content = <<>>
    /\ mpc = "preflight"
    /\ exit_status = "running"
    /\ \E users \in SUBSET UserNames :
           /\ databases = SystemPresent \cup users
           /\ tables \in {{"mysql"} \cup t : t \in SUBSET users}
    /\ cleanup_ret = "none"
    /\ drops_failed = {}
    /\ cleanup_fault = "none"
    /\ cleanup_runs = 0
    /\ drops_issued = <<>>

\* how often the cleanup is run in a row
MaxCleanupRuns == 2

Preflight_Railway ==
    /\ mpc = "preflight"
    /\ loader = "railway"
    /\ cleanup_runs < MaxCleanupRuns
    /\ RailwayCleanup
    /\ UNCHANGED <<tokVars, splitVars, uploadVars, mpc, exit_status>>

Preflight_Aiven ==
    /\ mpc = "preflight"
    /\ loader = "aiven"
    /\ cleanup_runs < MaxCleanupRuns
    /\ AivenCleanup
    /\ UNCHANGED <<tokVars, splitVars, uploadVars, mpc, exit_status>>

NextPreflight ==
    \/ Preflight_Railway
    \/ Preflight_Aiven

SpecPreflight == InitPreflight /\ [][NextPreflight]_vars

----------------------------------------------------------------------------
(* SpecMain: main of either loader, from the argument check to the exit *)

\* len(sys.argv): the script alone, with a path, or with more
ArgCounts == {1, 2, 3}

\* the user databases on the target when main starts
MainTargets == {{}, {RailwayDbName}}

InitMain ==
    /\ TokIdle
    /\ SplitIdle
    /\ RunIdle
    /\ loader \in {"railway", "aiven"}
    /\ file_exists \in BOOLEAN
    /\ content \in UploadDumps
    /\ mpc = "start"
    /\ exit_status = "running"
    /\ \E users \in MainTargets :
           /\ databases = SystemPresent \cup users
           /\ tables = {"mysql"} \cup users
    /\ cleanup_ret = "none"
    /\ drops_failed = {}
    /\ cleanup_fault = "none"
    /\ cleanup_runs = 0
    /\ drops_issued = <<>>

\* more than one argument: usage, sys.exit(1)
M_Args ==
    /\ mpc = "start"
    /\ \E argc \in ArgCounts :
         IF argc > 2
         THEN mpc' = "exited" /\ exit_status' = "1"
         ELSE /\ mpc' = IF loader = "railway" THEN "precheck" ELSE "cleanup"
              /\ UNCHANGED exit_status
    /\ UNCHANGED <<tokVars, splitVars, uploadVars, databases, tables,
                   cleanup_ret, drops_failed, cleanup_fault, cleanup_runs,
                   drops_issued>>

\* Railway: `if not check_railway_connection(): sys.exit(1)`
M_R_Precheck ==
    /\ mpc = "precheck"
    /\ \E ok \in BOOLEAN :
         IF ok
         THEN mpc' = "cleanup" /\ UNCHANGED exit_status
         ELSE mpc' = "exited" /\ exit_status' = "1"
    /\ UNCHANGED <<tokVars, splitVars, uploadVars, databases, tables,
                   cleanup_ret, drops_failed, cleanup_fault, cleanup_runs,
                   drops_issued>>

\* Railway: `if not clear_railway_database(): sys.exit(1)`
M_R_Cleanup ==
    /\ mpc = "cleanup"
    /\ loader = "railway"
    /\ RailwayCleanup
    /\ IF cleanup_ret' = "True"
       THEN mpc' = "upload" /\ UNCHANGED exit_status
       ELSE mpc' = "exited" /\ exit_status' = "1"
    /\ UNCHANGED <<tokVars, splitVars, uploadVars>>

\* Aiven: `clean_aiven_database()`, the returned value is not looked at
M_A_Cleanup ==
    /\ mpc = "cleanup"
    /\ loader = "aiven"
    /\ AivenCleanup
    /\ mpc' = "upload"
    /\ UNCHANGED <<tokVars, splitVars, uploadVars, exit_status>>

\* `success = upload_sql_file_chunked(sql_file_path)`: the call
M_CallUpload ==
    /\ mpc = "upload"
    /\ rpc = "idle"
    /\ rpc' = "start"
    /\ mpc' = "uploading"
    /\ UNCHANGED <<tokVars, splitVars, loader, file_exists, temp_dir, main_i,
                   failed_chunks, retry_i, total_success, total_errors, result,
                   chunkVars, calls, tmp_on_disk, exit_status, databases,
                   tables, cleanup_ret, drops_failed, cleanup_fault,
                   cleanup_runs, drops_issued>>

\* upload_sql_file_chunked has returned: main prints the outcome and ends
\* without sys.exit; an exception that left the function ends the process
\* with a traceback
M_Report ==
    /\ mpc = "uploading"
    /\ rpc = "done"
    /\ exit_status' = IF result = "exception" THEN "1" ELSE "0"
    /\ mpc' = "exited"
    /\ UNCHANGED <<tokVars, splitVars, uploadVars, databases, tables,
                   cleanup_ret, drops_failed, cleanup_fault, cleanup_runs,
                   drops_issued>>

NextMain ==
    \/ M_Args
    \/ M_R_Precheck
    \/ M_R_Cleanup
    \/ M_A_Cleanup
    \/ M_CallUpload
    \/ M_Report
    \/ NextUpload

SpecMain == InitMain /\ [][NextMain]_vars

----------------------------------------------------------------------------
(* SpecAivenSplit: split_sql_file of the Aiven loader applied to a dump *)

\* a whole statement on one line
LineWhole == <<"a", ";", "\n">>
\* the first line of a statement that goes on in the next line
LineHead == <<"a", "\n">>
\* a string literal opens, and the line ends in a semicolon inside it
LineLiteralOpen == <<"'", "a", ";", "\n">>
\* the literal and the statement close
LineLiteralClose == <<"b", "'", ";", "\n">>

AivenLines == {LineWhole, LineHead, LineLiteralOpen, LineLiteralClose}

\* dumps of at most MaxStmts lines
AivenDumps == {Flatten(ls) : ls \in SeqsUpTo(AivenLines, MaxStmts)}

InitAivenSplit ==
    /\ content \in AivenDumps
    /\ TokIdle
    /\ chunk_size_mb \in 1..MaxBudget
    /\ statements = <<>>
    /\ chunk_stmts = <<>>
    /\ chunk_files = <<>>
    /\ spc = "init"
    /\ UploadIdle
    /\ MainIdle

A_SplitSqlFile ==
    /\ spc = "init"
    /\ chunk_files' = AivenSplitFiles(content, ChunkSizeBytes(chunk_size_mb))
    /\ spc' = "done"
    /\ UNCHANGED <<tokVars, chunk_size_mb, statements, chunk_stmts, uploadVars,
                   mainVars>>

NextAivenSplit == A_SplitSqlFile

SpecAivenSplit == InitAivenSplit /\ [][NextAivenSplit]_vars

(***************************************************************************)
(* SpecEmit: the tokenizer loops over texts made of whole segments: a      *)
(* statement, an empty segment, a line comment, a block comment, a         *)
(* DELIMITER directive, and text without a terminator.                     *)
(***************************************************************************)
SegStatement == <<"a", ";">>
SegEmpty == <<" ", ";">>
SegLineComment == <<"-", "-", "a", ";">>
SegBlockComment == <<"/", "*", "a", ";">>
SegDelimiter == KwDELIMITER \o <<";">>
SegOpen == <<"b">>

EmitSegments ==
    {SegStatement, SegEmpty, SegLineComment, SegBlockComment, SegDelimiter,
     SegOpen}

EmitDumps == {Flatten(ss) : ss \in SeqsUpTo(EmitSegments, MaxStmts)}

InitEmit ==
    /\ content \in EmitDumps
    /\ TokIdle
    /\ SplitIdle
    /\ UploadIdle
    /\ MainIdle

NextEmit == ReadChar

SpecEmit == InitEmit /\ [][NextEmit]_vars

(***************************************************************************)
(* SpecComment: the tokenizer loops over texts with SQL comments: a line   *)
(* comment, line comments that hold a quote or a semicolon, a block        *)
(* comment that holds a semicolon, and a command.                          *)
(***************************************************************************)
CmtLine == <<"-", "-", "c", "\n">>
CmtLineQuote == <<"-", "-", "'", "\n">>
CmtLineSemi == <<"-", "-", ";", "\n">>
CmtBlockSemi == <<"/", "*", ";", "*", "/">>
CmtCommand == <<"b", ";">>

CommentPieces == {CmtLine, CmtLineQuote, CmtLineSemi, CmtBlockSemi, CmtCommand}

CommentDumps == {Flatten(ps) : ps \in SeqsUpTo(CommentPieces, MaxStmts)}

InitComment ==
    /\ content \in CommentDumps
    /\ TokIdle
    /\ SplitIdle
    /\ UploadIdle
    /\ MainIdle

NextComment == ReadChar

SpecComment == InitComment /\ [][NextComment]_vars

(***************************************************************************)
(* SpecRetok: split_sql_file of the Railway loader over dumps with         *)
(* comments, DELIMITER lines and literals that hold the other quote; the   *)
(* chunk files it writes are what upload_chunk reads and tokenizes again.  *)
(***************************************************************************)
RetokInsert == <<"a", ";", "\n">>
RetokCreate == KwCREATE \o <<";", "\n">>
RetokComment == <<"/", "*", "a", "*", "/", ";", "\n">>
RetokDelimiter == KwDELIMITER \o <<";", "\n">>
RetokOtherQuote == <<"'", "\"", "'", ";", "\n">>

RetokLines ==
    {RetokInsert, RetokCreate, RetokComment, RetokDelimiter, RetokOtherQuote}

RetokDumps == {Flatten(ls) : ls \in SeqsUpTo(RetokLines, MaxStmts)}

InitRetok ==
    /\ content \in RetokDumps
    /\ chunk_size_mb \in 1..MaxBudget
    /\ statements = <<>>
    /\ chunk_stmts = <<>>
    /\ chunk_files = <<>>
    /\ spc = "init"
    /\ TokIdle
    /\ UploadIdle
    /\ MainIdle

NextRetok == SplitSqlFile

SpecRetok == InitRetok /\ [][NextRetok]_vars

----------------------------------------------------------------------------
(* Properties of the tokenizers (SpecTok) *)

\* The scanner of the design: inString, stringDelimiter, escapeNext.  A quote
\* of the other kind inside a literal is content, a backslash makes the next
\* character literal.
RefInit == [inString |-> FALSE, stringDelimiter |-> "None", escapeNext |-> FALSE]

RefStep(r, c) ==
    IF r.escapeNext THEN [r EXCEPT !.escapeNext = FALSE]
    ELSE IF c = "\\" THEN [r EXCEPT !.escapeNext = TRUE]
    ELSE IF c \in {"'", "\""}
    THEN IF ~r.inString THEN [r EXCEPT !.inString = TRUE, !.stringDelimiter = c]
         ELSE IF c = r.stringDelimiter
         THEN [r EXCEPT !.inString = FALSE, !.stringDelimiter = "None"]
         ELSE r
    ELSE r

RECURSIVE RefAfter(_, _)
RefAfter(text, n) ==
    IF n = 0 THEN RefInit ELSE RefStep(RefAfter(text, n - 1), text[n])

\* every literal of the text is closed
ProperlyQuoted(text) == ~RefAfter(text, Len(text)).inString

\* the character just consumed is a semicolon inside a string literal of a
\* properly quoted text
SemicolonInLiteral ==
    /\ pos > 0
    /\ content[pos] = ";"
    /\ RefAfter(content, pos - 1).inString
    /\ ProperlyQuoted(content)

\* a tokenizer ended a statement at the character just consumed exactly when
\* its current_statement is empty again
EndedStatement(t) == pos > 0 /\ t.current_statement = <<>>

\* C1: no tokenizer (Railway splitter, Railway uploader, Aiven uploader) ends
\* a statement at a semicolon that lies inside a properly quoted string
\* literal, opened by either quote character, also when the literal holds an
\* escaped quote or a quote of the other kind.
C1_NoSplitInsideLiteral ==
    SemicolonInLiteral =>
        /\ ~EndedStatement(split_tok)
        /\ ~EndedStatement(up_tok)
        /\ ~EndedStatement(aiven_tok)

----------------------------------------------------------------------------
(* Properties of split_sql_file (SpecSplit) *)

Letters == {LowerCase[k] : k \in 1..26} \cup {UpperCase[k] : k \in 1..26}

\* the leading keyword of a statement: its first word, in upper case
RECURSIVE LeadingLetters(_)
LeadingLetters(s) ==
    IF s # <<>> /\ Head(s) \in Letters
    THEN <<Head(s)>> \o LeadingLetters(Tail(s))
    ELSE <<>>

LeadingKeyword(stmt) == Upper(LeadingLetters(stmt))

KwDROP == <<"D", "R", "O", "P">>

KeywordIsSchema(stmt) == LeadingKeyword(stmt) \in {KwCREATE, KwUSE}

\* the upper-cased text begins with the letters CREATE or USE
PrefixIsSchema(stmt) ==
    \E kw \in {KwCREATE, KwUSE} :
        /\ Len(stmt) >= Len(kw)
        /\ \A k \in 1..Len(kw) : UpperChar(stmt[k]) = kw[k]

B == chunk_size_mb * MB

NumChunks == Len(chunk_stmts)

DataChunkNums == 2..NumChunks

RECURSIVE SumSizes(_)
SumSizes(stmts) ==
    IF stmts = <<>> THEN 0 ELSE Utf8Len(Head(stmts)) + 1 + SumSizes(Tail(stmts))

Members(seq) == {seq[k] : k \in 1..Len(seq)}

\* C2 as stated: chunk #1 holds exactly the statements whose leading keyword
\* is CREATE or USE, and no later chunk holds one.
C2_SchemaByKeyword ==
    spc = "done" =>
        /\ chunk_stmts[1] = SelectSeq(statements, KeywordIsSchema)
        /\ \A k \in DataChunkNums :
               \A s \in Members(chunk_stmts[k]) : ~KeywordIsSchema(s)

\* C2 amended: chunk #1 holds exactly the statements whose upper-cased text
\* begins with the letters CREATE or USE (a prefix test, not a whole-word
\* test), and no later chunk holds one.
C2_SchemaByPrefix ==
    spc = "done" =>
        /\ chunk_stmts[1] = SelectSeq(statements, PrefixIsSchema)
        /\ \A k \in DataChunkNums :
               \A s \in Members(chunk_stmts[k]) : ~PrefixIsSchema(s)

\* a run with a CREATE, a lower-case use and a USEX statement in chunk #1 and
\* a data chunk after it
C2_Witness ==
    /\ spc = "done"
    /\ NumChunks >= 2
    /\ \E s \in Members(chunk_stmts[1]) : LeadingKeyword(s) = KwCREATE
    /\ \E s \in Members(chunk_stmts[1]) : s[1] = "u"
    /\ \E s \in Members(chunk_stmts[1]) : ~KeywordIsSchema(s)

\* C3: every chunk file after chunk #1 is at most B bytes, unless it holds
\* exactly one statement that with its newline is larger than B; so two or
\* more DATA statements whose combined size exceeds B take at least two data
\* chunks.
C3_DataChunksWithinBudget ==
    spc = "done" =>
        /\ \A k \in DataChunkNums :
               \/ Utf8Len(chunk_files[k]) <= B
               \/ /\ Len(chunk_stmts[k]) = 1
                  /\ Utf8Len(chunk_stmts[k][1]) + 1 > B
        /\ LET data == SelectSeq(statements, LAMBDA s : ~PrefixIsSchema(s))
           IN  (Len(data) >= 2 /\ SumSizes(data) > B) => NumChunks >= 3

\* the budget closed a data chunk that holds two statements
C3_Witness ==
    /\ spc = "done"
    /\ NumChunks >= 3
    /\ Len(chunk_stmts[2]) >= 2
    /\ Utf8Len(chunk_files[2]) <= B
    /\ Utf8Len(chunk_files[2]) + Utf8Len(chunk_stmts[3][1]) + 1 > B

\* C4: the chunks partition the tokenized statements: chunk #1 lists the
\* SCHEMA statements in dump order, chunks 2..n together list the DATA
\* statements in dump order, and nothing is lost or duplicated.
C4_ChunksPartitionStatements ==
    spc = "done" =>
        /\ chunk_stmts[1] = SelectSeq(statements, PrefixIsSchema)
        /\ Flatten(SubSeq(chunk_stmts, 2, NumChunks))
               = SelectSeq(statements, LAMBDA s : ~PrefixIsSchema(s))
        /\ Len(Flatten(chunk_stmts)) = Len(statements)

\* a dump whose DATA statements fill two data chunks and in which a SCHEMA
\* statement follows a DATA statement
C4_Witness ==
    /\ spc = "done"
    /\ NumChunks >= 3
    /\ Len(statements) = MaxStmts
    /\ \E i, j \in 1..Len(statements) :
           i < j /\ ~PrefixIsSchema(statements[i]) /\ PrefixIsSchema(statements[j])

\* DDL: the statements of the SCHEMA class (CREATE, USE) and DROP statements
IsDDL(stmt) == PrefixIsSchema(stmt) \/ LeadingKeyword(stmt) = KwDROP

\* C5: in the chunk-order concatenation the DDL statements (CREATE, USE, DROP)
\* keep their dump order and all precede every DATA statement; a DROP that
\* precedes a CREATE in the dump still precedes it.
C5_DdlOrderKept ==
    spc = "done" =>
        LET all == Flatten(chunk_stmts)
        IN  /\ SelectSeq(all, IsDDL) = SelectSeq(statements, IsDDL)
            /\ \A i, j \in 1..Len(all) :
                   (i < j /\ IsDDL(all[j])) => IsDDL(all[i])

----------------------------------------------------------------------------
(* Properties of the uploaders (SpecUpload) *)

\* the number of chunks of the run: one on the direct path
TotalChunks == IF rpc = "direct" \/ chunk_files = <<>> THEN 1 ELSE Len(chunk_files)

\* the positions in calls of the attempts of chunk k, as a set
AttemptsOf(k) == {j \in 1..Len(calls) : calls[j].chunk = k}

\* position j holds the first attempt of its chunk
IsFirstAttempt(j) == \A h \in 1..(j - 1) : calls[h].chunk # calls[j].chunk

\* position j holds a later attempt of its chunk
IsRetry(j) == ~IsFirstAttempt(j)

\* an attempt that upload_chunk reported as failed
AttemptFailed(j) == calls[j].success = "False"

\* before position j, chunk k was uploaded and its final commit went through
CommittedBefore(k, j) ==
    \E h \in 1..(j - 1) :
        calls[h].chunk = k /\ calls[h].success = "True" /\ calls[h].commit = "ok"

\* before position j, chunk k failed its first attempt and its retry
PermanentlyFailedBefore(k, j) ==
    \E g, h \in 1..(j - 1) :
        /\ g < h
        /\ calls[g].chunk = k /\ AttemptFailed(g)
        /\ calls[h].chunk = k /\ AttemptFailed(h)

\* chunk k failed its first attempt and its retry
PermanentlyFailed(k) == PermanentlyFailedBefore(k, Len(calls) + 1)

\* the run went through split_sql_file
ChunkedRun == temp_dir # "None"

\* C6: in a chunked run the first attempt of chunk k+1 begins only after
\* chunk k has committed or has failed its first attempt and its retry, and
\* no statement of a chunk 2.. is executed before chunk #1 was executed.
C6_ChunksInOrder ==
    ChunkedRun =>
        \A j \in 1..Len(calls) :
            (IsFirstAttempt(j) /\ calls[j].chunk > 1) =>
                /\ \/ CommittedBefore(calls[j].chunk - 1, j)
                   \/ PermanentlyFailedBefore(calls[j].chunk - 1, j)
                /\ calls[j].executed > 0 =>
                       \E h \in 1..(j - 1) :
                           calls[h].chunk = 1 /\ calls[h].success = "True"

\* C7: a chunk attempt whose final commit failed has had its rollback and is
\* reported as failed.
C7_CommitFailureFailsChunk ==
    \A j \in 1..Len(calls) :
        calls[j].commit = "failed" =>
            calls[j].rollback /\ calls[j].success = "False"

\* C8: a chunked Railway run that returns a result returns success exactly
\* when no chunk failed both its first attempt and its retry.
C8_SuccessIffNoPermanentFailure ==
    (loader = "railway" /\ ChunkedRun /\ rpc = "done" /\ result # "exception") =>
        (result = "True" <=> \A k \in 1..TotalChunks : ~PermanentlyFailed(k))

\* C9: at the end of a run of either loader, chunked or not, every chunk
\* whose first attempt failed was attempted exactly once more, every retry
\* came after the first attempts of all chunks, and no chunk was attempted
\* more than twice.
C9_OneRetryAfterAllFirstAttempts ==
    /\ \A k \in 1..TotalChunks : Cardinality(AttemptsOf(k)) <= 2
    /\ \A j \in 1..Len(calls) :
           IsRetry(j) =>
               \A k \in 1..TotalChunks : \E h \in 1..(j - 1) : calls[h].chunk = k
    /\ (rpc = "done" /\ result # "exception") =>
           \A j \in 1..Len(calls) :
               (IsFirstAttempt(j) /\ AttemptFailed(j)) =>
                   Cardinality(AttemptsOf(calls[j].chunk)) = 2

\* C10: after a statement failed with the storage-full error, no further
\* statement of the chunk is executed, no other chunk attempt follows, and
\* the run's result is failure.
C10_StorageFullAborts ==
    \A j \in 1..Len(calls) :
        calls[j].critical > 0 =>
            /\ calls[j].executed = calls[j].critical
            /\ j = Len(calls)
            /\ rpc = "done" => result = "False"

\* C10: the storage-full error as the sixth failing statement of an Aiven
\* chunk
C10_Witness ==
    /\ loader = "aiven"
    /\ calls # <<>>
    /\ calls[Len(calls)].critical = 6
    /\ error_count = 6

\* the record of the chunk attempt in flight or just returned
LastCall == calls[Len(calls)]

\* C11: a statement failure that is not critical never ends its chunk
\* attempt: the statements are executed one by one in order, every failure
\* adds one to the error count, an attempt that returns success has executed
\* every statement of its chunk, an attempt reports failure only when no
\* statement was reached or a critical failure was met, and a run reports
\* failure only when some attempt did.
C11_StatementFailureNeverAborts ==
    /\ [](\A j \in 1..Len(calls) :
              calls[j].success = "False" =>
                  calls[j].executed = 0 \/ calls[j].critical > 0)
    /\ []((cpc = "returned" /\ ret.success) =>
              /\ LastCall.executed = Len(chunk_statements)
              /\ error_count >= LastCall.failed)
    /\ []((rpc = "done" /\ result = "False" /\ file_exists) =>
              \E j \in 1..Len(calls) : calls[j].success = "False")
    /\ [][(cpc = "exec" /\ si' # si) =>
              /\ si' = si + 1
              /\ LastCall'.executed = LastCall.executed + 1
              /\ LastCall'.failed > LastCall.failed =>
                     error_count' = error_count + 1
              /\ (cpc' # "exec" => LastCall'.critical > 0)]_vars

\* C11: an attempt that returned success although its first statement
\* failed and a later one was executed
C11_Witness ==
    /\ cpc = "returned"
    /\ ret.success
    /\ LastCall.failed >= 1
    /\ LastCall.executed >= 2
    /\ ret.error_count >= 1

\* C14: once upload_sql_file_chunked has made the temporary directory, the
\* directory is gone from the disk when the function is left, whichever way
\* it is left.
C14_TempDirRemoved ==
    rpc = "done" => ~tmp_on_disk

\* C14: the function was left through an exception of split_sql_file
C14_Witness ==
    /\ rpc = "done"
    /\ result = "exception"
    /\ calls = <<>>
    /\ tmp_on_disk

\* C15: every chunk attempt, first or retry, begins without a connection and
\* opens its own; the connection is open exactly while the attempt prepares
\* and executes, and is closed when the attempt has returned or raised; only
\* the newest attempt can be in flight.
C15_OwnConnectionPerAttempt ==
    /\ [](conn_open <=> cpc \in {"prepare", "exec"})
    /\ [](\A j \in 1..Len(calls) :
              calls[j].success = "pending" => j = Len(calls))
    /\ [][Len(calls') > Len(calls) =>
              ~conn_open /\ ~conn_open' /\ cpc' = "connect"]_vars

\* C15: the retry of a chunk executes on a connection of its own
C15_Witness ==
    /\ rpc = "retry"
    /\ cpc = "exec"
    /\ conn_open
    /\ Len(calls) >= 2

----------------------------------------------------------------------------
(* Properties of the pre-flight cleanup (SpecPreflight) *)

\* the state the cleanup is to leave: Railway: the target database exists
\* and holds no table; Aiven: no user database is left
TargetClean ==
    IF loader = "railway"
    THEN RailwayDbName \in databases /\ RailwayDbName \notin tables
    ELSE UserDatabases(databases) = {}

\* no operation of the last cleanup call raised
CleanupUndisturbed == cleanup_fault = "none" /\ drops_failed = {}

\* C18: a cleanup none of whose operations raises reports success and leaves
\* the target clean, and a second such cleanup right after it reports
\* success again and leaves the target as the first one left it.
C18_PreflightIdempotent ==
    /\ []((cleanup_runs >= 1 /\ CleanupUndisturbed) =>
              cleanup_ret = "True" /\ TargetClean)
    /\ [][(cleanup_runs = 1 /\ cleanup_runs' = 2
           /\ CleanupUndisturbed /\ CleanupUndisturbed') =>
              /\ cleanup_ret' = "True"
              /\ databases' = databases
              /\ tables' = tables]_vars

\* C18: the second cleanup in a row has run undisturbed and reported success
C18_Witness ==
    /\ cleanup_runs = 2
    /\ CleanupUndisturbed
    /\ cleanup_ret = "True"
    /\ TargetClean

----------------------------------------------------------------------------
(* Properties of main (SpecMain) *)

\* C12: upload_chunk is called only after a cleanup that reported success
\* and in which no DROP failed.
C12_NoUploadAfterFailedPreflight ==
    calls # <<>> => (cleanup_ret = "True" /\ drops_failed = {})

\* the run has uploaded the dump without a permanently failed chunk
RunFullySucceeded ==
    /\ rpc = "done"
    /\ file_exists
    /\ result # "exception"
    /\ \A k \in 1..TotalChunks : ~PermanentlyFailed(k)

\* C13: the process exits with status 0 exactly when the run fully
\* succeeded; a failed pre-check, a missing input file or a permanently
\* failed chunk gives a status other than 0.
C13_ExitStatusTellsSuccess ==
    mpc = "exited" => (exit_status = "0" <=> RunFullySucceeded)

----------------------------------------------------------------------------
(* Properties of the Aiven split_sql_file (SpecAivenSplit) *)

\* the number of characters of the dump in chunk files 1..k
ChunkBoundary(k) == Len(Flatten(SubSeq(chunk_files, 1, k)))

\* C16: no boundary between two chunk files falls inside a statement: at
\* every boundary the dump is outside a string literal and the statement
\* before the boundary has been ended by its semicolon.
C16_StatementAtomicChunks ==
    (spc = "done" /\ ProperlyQuoted(content)) =>
        \A k \in 1..(Len(chunk_files) - 1) :
            /\ ~RefAfter(content, ChunkBoundary(k)).inString
            /\ EndsWithSemicolon(Strip(SubSeq(content, 1, ChunkBoundary(k))))

\* C16: the chunk files of a dump with a literal that holds a line ending
\* in a semicolon
C16_Witness ==
    /\ spc = "done"
    /\ ProperlyQuoted(content)
    /\ Len(chunk_files) >= 2
    /\ \E k \in 1..(Len(chunk_files) - 1) :
           RefAfter(content, ChunkBoundary(k)).inString

----------------------------------------------------------------------------
(* Further properties of the tokenizers (SpecTok) and of the planner *)

\* tokenizer state before and after reading char: a character that follows
\* an unescaped backslash is appended and changes nothing else, and the
\* escape flag is set by an unescaped backslash only
EscapeKept(before, after, char) ==
    /\ before.escape_next =>
           /\ after.current_statement = Append(before.current_statement, char)
           /\ after.in_string = before.in_string
           /\ after.statements = before.statements
           /\ ~after.escape_next
    /\ after.escape_next <=> (~before.escape_next /\ char = "\\")

\* C19: in each of the three tokenizers the character after a backslash is
\* taken literally (appended, no quote toggle, no statement end) and the
\* escape ends with it.
C19_EscapeOneCharacter ==
    [][pos' = pos + 1 =>
           /\ EscapeKept(split_tok, split_tok', content[pos + 1])
           /\ EscapeKept(up_tok, up_tok', content[pos + 1])
           /\ up_tok.escape_next => up_tok'.string_char = up_tok.string_char
           /\ EscapeKept(aiven_tok, aiven_tok', content[pos + 1])]_vars

\* C19: an escaped quote was read, and after two backslashes an unescaped
\* semicolon ended the statement
C19_Witness ==
    /\ pos = 5
    /\ SubSeq(content, 1, 5) = <<"\\", "'", "\\", "\\", ";">>
    /\ ~aiven_tok.in_string
    /\ Len(aiven_tok.statements) = 1
    /\ Len(split_tok.statements) = 1
    /\ Len(up_tok.statements) = 1

\* C17: a chunk without a statement is the last chunk of a dump without DATA
\* statements; chunk #1 of a dump with DATA statements is not empty.
C17_NoEmptyChunk ==
    spc = "done" =>
        \A k \in 1..NumChunks :
            chunk_stmts[k] = <<>> =>
                /\ k = NumChunks
                /\ \A j \in 1..Len(statements) : IsSchemaStmt(statements[j])

(***************************************************************************)
(* Properties of SpecEmit                                                  *)
(***************************************************************************)
\* the segments of a text: the scan of the quoting rules above, cutting at
\* each unescaped semicolon outside a string
SegInit == [ref |-> RefInit, current |-> <<>>, segments |-> <<>>]

\* a segment is kept when it is not empty and is not a comment
SegKept(segment) ==
    /\ segment # <<>>
    /\ ~StartsWith(segment, DashDash)
    /\ ~StartsWith(segment, SlashStar)

SegStep(t, c) ==
    IF c = ";" /\ ~t.ref.escapeNext /\ ~t.ref.inString
    THEN [ref |-> RefStep(t.ref, c),
          current |-> <<>>,
          segments |-> IF SegKept(Strip(t.current))
                       THEN Append(t.segments, Strip(t.current))
                       ELSE t.segments]
    ELSE [ref |-> RefStep(t.ref, c),
          current |-> Append(t.current, c),
          segments |-> t.segments]

RECURSIVE SegRange(_, _, _, _)
SegRange(t, text, lo, hi) ==
    IF lo > hi THEN t
    ELSE IF lo = hi THEN SegStep(t, text[lo])
    ELSE CHOOSE u \in {SegRange(m, text, (lo + hi) \div 2 + 1, hi) :
                          m \in {SegRange(t, text, lo, (lo + hi) \div 2)}} : TRUE

KeptSegments(text) == SegRange(SegInit, text, 1, Len(text)).segments

\* a statement without the terminator the Railway splitter puts back
Bare(statement) ==
    IF statement # <<>> /\ statement[Len(statement)] = ";"
    THEN SubSeq(statement, 1, Len(statement) - 1)
    ELSE statement

BareAll(ss) == [i \in 1..Len(ss) |-> Bare(ss[i])]

\* C20: what each tokenizer has emitted for the text read so far is, in
\* order, the trimmed segments ending at a semicolon outside a string that
\* are non-empty and start with neither '--' nor '/*'; nothing else is
\* filtered, and text after the last semicolon is not emitted.
C20_EmitsKeptSegments ==
    LET kept == KeptSegments(SubSeq(content, 1, pos))
    IN  /\ BareAll(split_tok.statements) = kept
        /\ up_tok.statements = kept
        /\ aiven_tok.statements = kept

\* C20: a text without quotes was read to its end; the Railway splitter
\* emitted a block comment and the Railway uploader dropped a DELIMITER
\* directive, while the Aiven uploader emitted the kept segments
C20_Witness ==
    /\ pos = Len(content)
    /\ \A i \in 1..Len(content) : content[i] \notin {"'", "\"", "\\"}
    /\ \E i \in 1..Len(split_tok.statements) :
           StartsWith(split_tok.statements[i], SlashStar)
    /\ \E i \in 1..Len(aiven_tok.statements) :
           /\ aiven_tok.statements[i] = KwDELIMITER
           /\ Len(up_tok.statements) < Len(aiven_tok.statements)
    /\ aiven_tok.statements = KeptSegments(content)

(***************************************************************************)
(* Properties of SpecSplit: greedy packing                                 *)
(***************************************************************************)
\* C21: DATA statements are packed greedily: for every two consecutive data
\* chunks, the bytes of the earlier chunk plus the bytes of the first
\* statement of the later chunk (with its newline) are more than B.
C21_GreedyPacking ==
    spc = "done" =>
        \A k \in DataChunkNums :
            k + 1 \in DataChunkNums =>
                SumSizes(chunk_stmts[k]) + StmtSize(chunk_stmts[k + 1][1]) > B

\* C21: three data chunks, the first of them holding two statements that
\* fill it exactly to the budget
C21_Witness ==
    /\ spc = "done"
    /\ NumChunks = 4
    /\ Len(chunk_stmts[2]) = 2
    /\ SumSizes(chunk_stmts[2]) = B

(***************************************************************************)
(* Properties of SpecBatch                                                 *)
(***************************************************************************)
\* C22: in every chunk attempt the number of statements passed to the server
\* since the last commit was issued is at most batch_size: a commit follows
\* every batch_size-th statement, whether it succeeded or failed.
C22_UncommittedWithinBatch ==
    \A j \in 1..Len(calls) : calls[j].since_commit <= batch_size

\* C22: a Railway attempt went past its batch_size-th statement and the
\* commit after that statement was issued
C22_Witness ==
    /\ loader = "railway"
    /\ calls # <<>>
    /\ LastCall.executed = batch_size + 1
    /\ LastCall.since_commit = 1

\* C27: an attempt that returns success has counted every statement of its
\* chunk once: success_count + error_count is the number of statements.
C27_EveryStatementCountedOnce ==
    (cpc = "returned" /\ ret.success) =>
        ret.success_count + ret.error_count = Len(chunk_statements)

\* C27: a successful attempt over more than batch_size statements returned
\* counts that add up to the number of statements
C27_Witness ==
    /\ cpc = "returned"
    /\ ret.success
    /\ Len(chunk_statements) > batch_size
    /\ ret.error_count > 0
    /\ ret.success_count + ret.error_count = Len(chunk_statements)

(***************************************************************************)
(* Properties of SpecUpload: lost connections, progress, re-execution      *)
(***************************************************************************)
\* C23: an attempt during whose statements the connection was lost is
\* reported as failed, never as successful.
C23_LostConnectionFailsAttempt ==
    \A j \in 1..Len(calls) : calls[j].lost => calls[j].success # "True"

\* C23: the connection was lost after a statement of the chunk had been
\* executed, and the attempt has returned
C23_Witness ==
    /\ calls # <<>>
    /\ LastCall.lost
    /\ LastCall.executed > LastCall.failed
    /\ cpc = "returned"

\* C24: print_progress_bar never raises: no attempt, also none over a chunk
\* without statements, is left by an exception of the progress report.
C24_ProgressNeverRaises ==
    \A j \in 1..Len(calls) : calls[j].success # "raised"

\* C24: an attempt over a chunk without statements got to the final
\* progress report
C24_Witness ==
    /\ loader = "railway"
    /\ calls # <<>>
    /\ LastCall.success = "raised"
    /\ chunk_statements = <<>>
    /\ LastCall.executed = 0

\* C29: a Railway attempt reported as failed has executed no statement of
\* its chunk, and no chunk has statements executed in two attempts.
C29_FailedAttemptExecutedNothing ==
    loader = "railway" =>
        /\ \A j \in 1..Len(calls) :
               calls[j].success = "False" => calls[j].executed = 0
        /\ \A i, j \in 1..Len(calls) :
               (i < j /\ calls[i].chunk = calls[j].chunk) =>
                   ~(calls[i].executed > 0 /\ calls[j].executed > 0)

\* C29: a chunk failed in the main pass and its retry executed statements
C29_Witness ==
    /\ loader = "railway"
    /\ rpc = "retry"
    /\ \E i, j \in 1..Len(calls) :
           /\ i < j
           /\ calls[i].chunk = calls[j].chunk
           /\ calls[i].success = "False"
           /\ calls[j].executed > 0

(***************************************************************************)
(* Properties of SpecPreflight: the DROPs of the Aiven cleanup             *)
(***************************************************************************)
ReservedDatabases ==
    {"information_schema", "mysql", "performance_schema", "sys",
     "mysql_innodb_cluster_metadata"}

\* how often the cleanup sent a DROP for db
DropCount(db, issued) == Cardinality({i \in 1..Len(issued) : issued[i] = db})

\* C25: a run of the Aiven cleanup sends no DROP for a system-reserved
\* database and, once it has listed the databases, exactly one DROP for every
\* other database on the server, also when one of the DROPs fails.
C25_DropsExactlyUserDatabases ==
    [][(loader = "aiven" /\ cleanup_runs' = cleanup_runs + 1) =>
           /\ \A i \in 1..Len(drops_issued') :
                  drops_issued'[i] \notin ReservedDatabases
           /\ cleanup_fault' \notin {"connect", "show"} =>
                  \A db \in databases \ ReservedDatabases :
                      DropCount(db, drops_issued') = 1]_vars

\* C25: the server listed system databases and three user databases, one
\* DROP failed and the other two databases were dropped
C25_Witness ==
    /\ loader = "aiven"
    /\ cleanup_runs = 1
    /\ Len(drops_issued) = 3
    /\ Cardinality(drops_failed) = 1
    /\ Cardinality(databases \ ReservedDatabases) = 1
    /\ "mysql" \in databases

(***************************************************************************)
(* Properties of SpecMain: a missing input file                            *)
(***************************************************************************)
\* C28: when the input file does not exist, no step of the run changes the
\* target server: no database is dropped or created.
C28_MissingFileLeavesTarget ==
    [][~file_exists => (databases' = databases /\ tables' = tables)]_vars

\* C28: the run for a missing file has ended at the file test after the
\* cleanup had sent a DROP
C28_Witness ==
    /\ ~file_exists
    /\ mpc = "exited"
    /\ result = "False"
    /\ calls = <<>>
    /\ drops_issued # <<>>

(***************************************************************************)
(* Properties of SpecRetok                                                 *)
(***************************************************************************)
\* C26: tokenizing a chunk file again with upload_chunk's tokenizer gives the
\* statements the planner put into the chunk, without the ';' that was put
\* back, in the same order and number.
C26_ChunkReadsBackAsPlanned ==
    spc = "done" =>
        \A k \in 1..NumChunks :
            UpTokenize(chunk_files[k]) = BareAll(chunk_stmts[k])

\* C26: a data chunk holds a comment statement next to another statement,
\* and only the other statement is read back
C26_Witness ==
    /\ spc = "done"
    /\ \E k \in DataChunkNums :
           /\ \E i \in 1..Len(chunk_stmts[k]) :
                  StartsWith(chunk_stmts[k][i], SlashStar)
           /\ <<"a", ";">> \in Members(chunk_stmts[k])
           /\ UpTokenize(chunk_files[k]) = <<<<"a">>>>

(***************************************************************************)
(* Properties of SpecComment                                               *)
(***************************************************************************)
\* a scan that knows SQL comments: mode is "code", "string", "line" (after
\* '--' up to the end of the line) or "block" (between '/*' and '*/');
\* code_chars counts the characters of the segment, blanks apart, that are
\* outside comments, had_comment tells that the segment holds a comment
CmtInit ==
    [mode |-> "code", ref |-> RefInit, prev |-> "", code_chars |-> 0,
     had_comment |-> FALSE]

CmtStep(r, c) ==
    IF r.mode = "line"
    THEN [r EXCEPT !.mode = IF c = "\n" THEN "code" ELSE "line", !.prev = ""]
    ELSE IF r.mode = "block"
    THEN [r EXCEPT !.mode = IF r.prev = "*" /\ c = "/" THEN "code" ELSE "block",
                   !.prev = IF r.prev = "*" /\ c = "/" THEN "" ELSE c]
    ELSE IF r.mode = "code" /\ r.prev = "-" /\ c = "-"
    THEN [r EXCEPT !.mode = "line", !.prev = "", !.code_chars = @ - 1,
                   !.had_comment = TRUE]
    ELSE IF r.mode = "code" /\ r.prev = "/" /\ c = "*"
    THEN [r EXCEPT !.mode = "block", !.prev = "", !.code_chars = @ - 1,
                   !.had_comment = TRUE]
    ELSE IF c = ";" /\ r.mode = "code" /\ ~r.ref.escapeNext
    THEN [r EXCEPT !.prev = "", !.code_chars = 0, !.had_comment = FALSE]
    ELSE LET q == RefStep(r.ref, c)
         IN  [r EXCEPT !.ref = q,
                       !.mode = IF q.inString THEN "string" ELSE "code",
                       !.prev = IF r.ref.escapeNext THEN "" ELSE c,
                       !.code_chars = IF c \in Whitespace THEN @ ELSE @ + 1]

RECURSIVE CmtRange(_, _, _, _)
CmtRange(r, text, lo, hi) ==
    IF lo > hi THEN r
    ELSE IF lo = hi THEN CmtStep(r, text[lo])
    ELSE CHOOSE u \in {CmtRange(m, text, (lo + hi) \div 2 + 1, hi) :
                          m \in {CmtRange(r, text, lo, (lo + hi) \div 2)}} : TRUE

CmtAfter(text, n) == CmtRange(CmtInit, text, 1, n)

InComment(r) == r.mode \in {"line", "block"}

\* the step of a tokenizer left its quoting state alone and ended no statement
CommentCharIgnored(before, after) ==
    /\ after.in_string = before.in_string
    /\ after.statements = before.statements
    /\ after.current_statement # <<>>

\* the step of a tokenizer emitted a statement
Emitted(before, after) == Len(after.statements) = Len(before.statements) + 1

\* C30: a quote or a semicolon inside a '--' or '/* */' comment neither
\* opens a string nor ends a statement in any tokenizer, and at the semicolon
\* that ends a segment holding a comment followed by a command every
\* tokenizer emits a statement.
C30_CommentsTransparent ==
    [][pos' = pos + 1 =>
           LET c == content[pos + 1]
               r == CmtAfter(content, pos)
           IN  /\ (InComment(r) /\ c \in {"'", "\"", ";"}) =>
                      /\ CommentCharIgnored(split_tok, split_tok')
                      /\ CommentCharIgnored(up_tok, up_tok')
                      /\ CommentCharIgnored(aiven_tok, aiven_tok')
               /\ (c = ";" /\ r.mode = "code" /\ r.had_comment
                       /\ r.code_chars > 0) =>
                      /\ Emitted(split_tok, split_tok')
                      /\ Emitted(up_tok, up_tok')
                      /\ Emitted(aiven_tok, aiven_tok')]_vars

\* C30: a comment line and the command after it were read to the semicolon,
\* and no tokenizer has emitted a statement
C30_Witness ==
    /\ content = CmtLine \o CmtCommand
    /\ pos = Len(content)
    /\ split_tok.statements = <<>>
    /\ up_tok.statements = <<>>
    /\ aiven_tok.statements = <<>>

====
